---- MODULE Spec2Model ----
(***************************************************************************)
(* Media-analysis pipeline of the YAAAD backend:                           *)
(*   - the two-tier cache          (src/src/services/cacheService.ts)      *)
(*   - the queue-based orchestrator (src/src/services/aiService.ts)        *)
(*   - the worker handlers          (src/src/workers/*.ts, part_010)       *)
(*   - the direct orchestrator      (src/unnamed/part_007)                 *)
(***************************************************************************)
EXTENDS Integers, Sequences, FiniteSets, TLC

VARIABLES
    memoryCache,   \* L1: NodeCache instance of this process, key -> entry
    redisStore,    \* L2: the shared Redis keyspace, key -> entry
    redisState,    \* "open" | "closed" (no client / !isOpen) | "error" (commands reject)
    ticks,         \* number of clock advances so far
    gw,            \* the getWithCache calls in flight, caller -> call state
    aPc,           \* AIService.analyzeImage: idle | fanout | tags | returned | raised
    aOpts,         \* its options: the enabled kinds and generateTags
    st,            \* its five subtasks, kind -> subtask state
    aTags,         \* the tags it obtained
    jobs,          \* the jobs it enqueued, slot (kind or "tags") -> job
    queueState,    \* the Bull queues: "up" | "down" (addJob rejects)
    failing,       \* the job types whose provider is unavailable: their handler throws
    faults,        \* environment changes so far (providers, connections)
    aiPc,          \* AIAnalysisService.analyzeImage: "idle" | "fanout" | "lookup" | "provider" | "returned"
    aiImage,       \* the image of its current call
    aiResults,     \* what its six subtasks settled with, kind -> value
    aiOk,          \* the kinds whose subtask obtained its value (provider or cache)
    aiTags,        \* the tags of its aggregate
    aiTagSrc,      \* where they came from: "none" | "cache" | "provider" | "fallback"
    aiCache,       \* the CacheService instance it uses, key -> entry
    aiRuns,        \* calls of it started so far
    lastOp,        \* outcome of the last setCache / deleteCache / clearCacheByPattern
    lastWrite,     \* per key, the last write by setCache or a caller's getWithCache
    work,          \* the jobs the controllers enqueued, slot -> job
    db             \* the rows of the memory under analysis

cacheVars == <<memoryCache, redisStore, redisState, ticks>>
orchVars == <<aPc, aOpts, st, aTags, jobs, queueState, failing, faults>>
storeVars == <<lastOp, lastWrite>>
workVars == <<work, db>>
directVars == <<aiPc, aiImage, aiResults, aiOk, aiTags, aiTagSrc, aiCache, aiRuns>>
vars == <<memoryCache, redisStore, redisState, ticks, gw,
          aPc, aOpts, st, aTags, jobs, queueState, failing, faults,
          aiPc, aiImage, aiResults, aiOk, aiTags, aiTagSrc, aiCache, aiRuns,
          lastOp, lastWrite, work, db>>

----------------------------------------------------------------------------
(* Bounds of the model *)

\* clock advances explored
MaxTicks == 2
\* environment changes per run
MaxFaults == 1
\* calls of AIAnalysisService.analyzeImage per run
MaxRuns == 2

\* a ttl shorter than NodeCache's stdTTL, for callers of the cache
ShortTTL == 60

(* Program constants *)

\* NodeCache stdTTL
StdTTL == 300
\* default ttl parameter of getWithCache / setCache
DefaultTTL == 3600
\* ttl the orchestrator passes for every analysis kind
DayTTL == 86400

----------------------------------------------------------------------------
(* JavaScript values.  Every value is a record of one shape so that any two *)
(* can be compared: t is the type tag, s the text of a string, a the         *)
(* elements of an array, p the properties of an object.                     *)

Undefined == [t |-> "undefined", s |-> "", a |-> <<>>, p |-> <<>>]
Null == [t |-> "null", s |-> "", a |-> <<>>, p |-> <<>>]
Str(x) == [t |-> "string", s |-> x, a |-> <<>>, p |-> <<>>]
\* an array of values
Arr(xs) == [t |-> "array", s |-> "", a |-> xs, p |-> <<>>]
\* an object; props is a sequence of <<name, value>>
Obj(props) == [t |-> "object", s |-> "", a |-> <<>>, p |-> props]

\* if (v) ... : undefined, null and '' are falsy; arrays and objects are truthy
Truthy(v) == /\ v.t \notin {"undefined", "null"}
             /\ ~(v.t = "string" /\ v.s = "")

\* v.name (and v?.name): the property of an object, undefined when it has none;
\* an array has no property of the names read here
GetProp(v, name) ==
    IF \E i \in 1..Len(v.p) : v.p[i][1] = name
    THEN v.p[CHOOSE i \in 1..Len(v.p) : v.p[i][1] = name][2]
    ELSE Undefined

\* JSON.stringify(v): the document of v, itself a (non-empty) string; undefined
\* has no document and stringify returns undefined
JSONStringify(v) ==
    IF v.t = "undefined" THEN Undefined
    ELSE [v EXCEPT !.t = "json:" \o v.t]

JSONTypes == {"null", "string", "array", "object"}

\* JSON.parse(doc): the value whose document doc is
JSONParse(doc) ==
    LET ty == CHOOSE ty \in JSONTypes : "json:" \o ty = doc.t
    IN  [doc EXCEPT !.t = ty]

----------------------------------------------------------------------------
(* Cache tiers.  An entry holds the value and rem, the seconds it still   *)
(* has to live: the expiry instant of the libraries, read against the     *)
(* clock.  Time passing (Tick) ages every entry.                           *)

NoEntry == [present |-> FALSE, v |-> Undefined, rem |-> 0]
Entry(v, ttl) == [present |-> TRUE, v |-> v, rem |-> ttl]

\* memoryCache.get(key): undefined for an absent key
L1Get(cache, key) == IF cache[key].present THEN cache[key].v ELSE Undefined

\* memoryCache.set(key, v): no ttl argument is passed, so stdTTL applies
L1Set(cache, key, v) == [cache EXCEPT ![key] = Entry(v, StdTTL)]

\* node-cache, d seconds later: an entry is gone once its expiry instant has passed
L1Age(cache, d) ==
    [k \in DOMAIN cache |->
        IF cache[k].present /\ cache[k].rem - d >= 0
        THEN [cache[k] EXCEPT !.rem = @ - d] ELSE NoEntry]

\* redisClient.get(key): the stored document, or null for an absent key
RedisGet(store, key) == IF store[key].present THEN store[key].v ELSE Null

\* redisClient.setEx(key, ttl, doc)
RedisSetEx(store, key, ttl, doc) == [store EXCEPT ![key] = Entry(doc, ttl)]

\* Redis, d seconds later: a key is gone when its ttl has elapsed
RedisAge(store, d) ==
    [k \in DOMAIN store |->
        IF store[k].present /\ store[k].rem - d > 0
        THEN [store[k] EXCEPT !.rem = @ - d] ELSE NoEntry]

\* redisClient && redisClient.isOpen
RedisUsable == redisState # "closed"

\* does a command sent to Redis now reject?  A command rejects when the
\* connection is broken, and when an argument is not a string (setEx of
\* JSON.stringify(undefined))
RedisRejects(arg) == redisState = "error" \/ arg.t = "undefined"

----------------------------------------------------------------------------
(* Keys.  The orchestrator builds `${kind}:${imageHash}`.                   *)

Kinds == {"caption", "objects", "faces", "text", "scene"}
Buffers == {"img1"}

\* AIService.hashBuffer: the SHA-256 digest of the bytes, in hex
HashBuffer(b) == "sha256(" \o b \o ")"

CacheKey(kind, hash) == kind \o ":" \o hash

Keys == {CacheKey(k, HashBuffer(b)) : k \in Kinds, b \in Buffers}

\* the last write of a key as its writer meant it: the value, the ttl asked
\* for, the seconds since (counted up to the ttl), whether this process'
\* memory cache received it and whether Redis did
NoWrite == [active |-> FALSE, v |-> Undefined, ttl |-> 0, age |-> 0,
            warm |-> FALSE, l2 |-> FALSE, by |-> "none"]
NewWrite(v, ttl, l2, by) ==
    [active |-> TRUE, v |-> v, ttl |-> ttl, age |-> 0, warm |-> TRUE, l2 |-> l2, by |-> by]
WriteAge(writes, d) ==
    [k \in Keys |-> IF writes[k].active
                     THEN [writes[k] EXCEPT !.age = IF @ + d < writes[k].ttl THEN @ + d
                                                    ELSE writes[k].ttl]
                     ELSE writes[k]]
WriteCold(writes) == [k \in Keys |-> [writes[k] EXCEPT !.warm = FALSE]]

\* what the caller of a maintenance function observes when it returns, and
\* what became of the Redis command: "ok", "rejected", or "skipped" when the
\* client is not open; forgotten when the caller's next lookup begins or
\* time passes
NoOp == [op |-> "none", raised |-> FALSE, l2 |-> "skipped"]
OpOutcome(name, l2) == [op |-> name, raised |-> FALSE, l2 |-> l2]

\* a catch block that rethrows instead of logging
OpCatchRethrow(name) == [op |-> name, raised |-> TRUE, l2 |-> "rejected"]

\* the catch blocks (lines 94-96, 109-111, 129-131): logger.error, nothing else
OpCatch(name) == OpOutcome(name, "rejected")

----------------------------------------------------------------------------
(* getWithCache(key, fetchFn, ttl), one call per caller.                    *)
(*   pc: idle -> l2get -> fetch -> l2set -> returned                        *)
(*       any step that throws inside the try -> refetch -> returned|raised  *)
(* data: the value fetchFn last resolved with; nfetch: how often fetchFn    *)
(* was invoked; fails: how often it rejected; l2ops: the outcomes of the    *)
(* Redis commands this call issued.                                         *)

\* the calls of getWithCache that can be in flight at once; a specification
\* of sequential use runs the first only
Callers == {"caller", "other"}
Solo == {"caller"}
GwKeys == {CacheKey("caption", HashBuffer("img1"))}
GwTTLs == {ShortTTL, DayTTL}
FetchValues == {Str("a caption"), Str(""), Undefined}

IdleCall == [pc |-> "idle", key |-> CacheKey("caption", HashBuffer("img1")),
             ttl |-> DefaultTTL, ret |-> Undefined, data |-> Undefined,
             nfetch |-> 0, fails |-> 0, l2ops |-> {}]

\* return v
GwReturn(call, v) == [call EXCEPT !.pc = "returned", !.ret = v]

\* invoke fetchFn() on the normal path (line 64)
GwFetch(call) == [call EXCEPT !.pc = "fetch", !.nfetch = @ + 1]

\* a catch block that rethrows instead of fetching again
GwCatchRethrow(call) == [call EXCEPT !.pc = "raised"]

\* the catch block (lines 73-77): return fetchFn()
GwCatch(call) == [call EXCEPT !.pc = "refetch", !.nfetch = @ + 1]

\* lines 43-51: L1 check, then either the Redis lookup or the fetch
GwCall(c, key, ttl) ==
    /\ gw[c].pc = "idle"
    /\ LET call == [IdleCall EXCEPT !.key = key, !.ttl = ttl]
           memCached == L1Get(memoryCache, key)
       IN  gw' = [gw EXCEPT ![c] =
                 IF Truthy(memCached) THEN GwReturn(call, memCached)
                 ELSE IF RedisUsable THEN [call EXCEPT !.pc = "l2get"]
                 ELSE GwFetch(call)]
    /\ lastOp' = NoOp
    /\ UNCHANGED <<workVars, lastWrite, directVars, cacheVars, orchVars>>

\* lines 52-60: redisClient.get settles
GwRedisGetSettles(c) ==
    /\ gw[c].pc = "l2get"
    /\ LET call == gw[c]
           redisCached == RedisGet(redisStore, call.key)
       IN  IF redisState # "open"
           THEN /\ gw' = [gw EXCEPT ![c] = GwCatch([call EXCEPT !.l2ops = @ \cup {"rejected"}])]
                /\ UNCHANGED memoryCache
           ELSE IF redisCached # Null
           THEN /\ memoryCache' = L1Set(memoryCache, call.key, JSONParse(redisCached))
                /\ gw' = [gw EXCEPT ![c] =
                          GwReturn([call EXCEPT !.l2ops = @ \cup {"ok"}], JSONParse(redisCached))]
           ELSE /\ gw' = [gw EXCEPT ![c] = GwFetch([call EXCEPT !.l2ops = @ \cup {"ok"}])]
                /\ UNCHANGED memoryCache
    /\ UNCHANGED <<workVars, storeVars, directVars, redisStore, redisState, ticks, orchVars>>

\* lines 64-70: fetchFn resolves with data; both tiers are written
GwFetchResolves(c, data) ==
    /\ gw[c].pc = "fetch"
    /\ memoryCache' = L1Set(memoryCache, gw[c].key, data)
    /\ LET call == [gw[c] EXCEPT !.data = data]
       IN  gw' = [gw EXCEPT ![c] =
                 IF RedisUsable THEN [call EXCEPT !.pc = "l2set"] ELSE GwReturn(call, data)]
    /\ lastWrite' = [lastWrite EXCEPT ![gw[c].key] = NewWrite(data, gw[c].ttl, FALSE, "miss")]
    /\ UNCHANGED <<workVars, lastOp, directVars, redisStore, redisState, ticks, orchVars>>

\* line 64 throws: fetchFn rejects inside the try
GwFetchRejects(c) ==
    /\ gw[c].pc = "fetch"
    /\ gw' = [gw EXCEPT ![c] = GwCatch([gw[c] EXCEPT !.fails = @ + 1])]
    /\ UNCHANGED <<workVars, storeVars, directVars, cacheVars, orchVars>>

\* lines 69-72: redisClient.setEx settles
GwRedisSetSettles(c) ==
    /\ gw[c].pc = "l2set"
    /\ LET call == gw[c]
           doc == JSONStringify(call.data)
       IN  IF redisState # "open" \/ RedisRejects(doc)
           THEN /\ gw' = [gw EXCEPT ![c] = GwCatch([call EXCEPT !.l2ops = @ \cup {"rejected"}])]
                /\ UNCHANGED <<redisStore, lastWrite>>
           ELSE /\ redisStore' = RedisSetEx(redisStore, call.key, call.ttl, doc)
                /\ gw' = [gw EXCEPT ![c] = GwReturn([call EXCEPT !.l2ops = @ \cup {"ok"}], call.data)]
                /\ lastWrite' = [lastWrite EXCEPT ![call.key] =
                                   [@ EXCEPT !.age = 0, !.l2 = TRUE]]
    /\ UNCHANGED <<workVars, lastOp, directVars, memoryCache, redisState, ticks, orchVars>>

\* line 76: the fetchFn() of the catch block resolves; its value is returned as is
GwRefetchResolves(c, data) ==
    /\ gw[c].pc = "refetch"
    /\ gw' = [gw EXCEPT ![c] = GwReturn([gw[c] EXCEPT !.data = data], data)]
    /\ UNCHANGED <<workVars, storeVars, directVars, cacheVars, orchVars>>

\* line 76: the fetchFn() of the catch block rejects; getWithCache rejects
GwRefetchRejects(c) ==
    /\ gw[c].pc = "refetch"
    /\ gw' = [gw EXCEPT ![c] = [gw[c] EXCEPT !.pc = "raised", !.fails = @ + 1]]
    /\ UNCHANGED <<workVars, storeVars, directVars, cacheVars, orchVars>>

\* the caller goes on; the slot is free for the next call
GwDone(c) ==
    /\ gw[c].pc \in {"returned", "raised"}
    /\ gw' = [gw EXCEPT ![c] = IdleCall]
    /\ UNCHANGED <<workVars, storeVars, directVars, cacheVars, orchVars>>

----------------------------------------------------------------------------
(* Environment of the cache *)

RedisStates == {"open", "closed", "error"}

\* the Redis connection opens, closes or starts rejecting commands
RedisChange(rs) ==
    /\ rs # redisState
    /\ redisState' = rs
    /\ UNCHANGED <<workVars, storeVars, directVars, memoryCache, redisStore, ticks, gw, orchVars>>

TickSteps == {ShortTTL, StdTTL, DayTTL}

\* time passes
Tick(d) ==
    /\ ticks < MaxTicks
    /\ memoryCache' = L1Age(memoryCache, d)
    /\ redisStore' = RedisAge(redisStore, d)
    /\ ticks' = ticks + 1
    /\ lastWrite' = WriteAge(lastWrite, d)
    /\ lastOp' = NoOp
    /\ UNCHANGED <<workVars, directVars, redisState, gw, orchVars>>

----------------------------------------------------------------------------
(* setCache, deleteCache and clearCacheByPattern.  Each call is one step:  *)
(* the memory cache operation, then the one Redis command, whose outcome   *)
(* is fixed by the state of the connection when it is issued.              *)

\* the caller issues one cache operation at a time
NoCallInFlight == \A c \in Callers : gw[c].pc = "idle"

StoreKeys == GwKeys
StoreValues == {Str("a caption"), Str("")}
StoreTTLs == {ShortTTL, DayTTL}

\* setCache, lines 81-97: memoryCache.set(key, data), then setEx with the ttl
SetCache(key, data, ttl) ==
    /\ NoCallInFlight
    /\ memoryCache' = L1Set(memoryCache, key, data)
    /\ LET doc == JSONStringify(data)
       IN  IF ~RedisUsable
           THEN /\ lastOp' = OpOutcome("set", "skipped")
                /\ lastWrite' = [lastWrite EXCEPT ![key] = NewWrite(data, ttl, FALSE, "set")]
                /\ UNCHANGED redisStore
           ELSE IF redisState # "open" \/ RedisRejects(doc)
           THEN /\ lastOp' = OpCatch("set")
                /\ lastWrite' = [lastWrite EXCEPT ![key] = NewWrite(data, ttl, FALSE, "set")]
                /\ UNCHANGED redisStore
           ELSE /\ redisStore' = RedisSetEx(redisStore, key, ttl, doc)
                /\ lastOp' = OpOutcome("set", "ok")
                /\ lastWrite' = [lastWrite EXCEPT ![key] = NewWrite(data, ttl, TRUE, "set")]
    /\ UNCHANGED <<workVars, directVars, redisState, ticks, gw, orchVars>>

\* deleteCache, lines 100-112: memoryCache.del(key), then redisClient.del(key)
DeleteCache(key) ==
    /\ NoCallInFlight
    /\ memoryCache' = [memoryCache EXCEPT ![key] = NoEntry]
    /\ lastWrite' = [lastWrite EXCEPT ![key] = NoWrite]
    /\ IF ~RedisUsable
       THEN /\ lastOp' = OpOutcome("delete", "skipped")
            /\ UNCHANGED redisStore
       ELSE IF redisState # "open"
       THEN /\ lastOp' = OpCatch("delete")
            /\ UNCHANGED redisStore
       ELSE /\ redisStore' = [redisStore EXCEPT ![key] = NoEntry]
            /\ lastOp' = OpOutcome("delete", "ok")
    /\ UNCHANGED <<workVars, directVars, redisState, ticks, gw, orchVars>>

\* the parts of a key, `kind:hash`
KeyKind(key) == CHOOSE kind \in Kinds : \E b \in Buffers : key = CacheKey(kind, HashBuffer(b))
KeyHash(key) == CHOOSE h \in {HashBuffer(b) : b \in Buffers} : \E kind \in Kinds : key = CacheKey(kind, h)

\* k.includes(pattern), and the glob *pattern* of redisClient.keys, for the
\* patterns used here: a whole key, a kind, a hash, or a word in no key
Patterns == {"caption", "video", HashBuffer("img1")}
Includes(key, pattern) == pattern \in {key, KeyKind(key), KeyHash(key)}
\* key.startsWith(pattern) for the same patterns
BeginsWith(key, pattern) == pattern \in {key, KeyKind(key)}

\* clearCacheByPattern, lines 115-132: del of the matching memory keys, then
\* redisClient.keys and del of what it found
ClearCacheByPattern(pattern) ==
    /\ NoCallInFlight
    /\ memoryCache' = [k \in Keys |-> IF Includes(k, pattern) THEN NoEntry ELSE memoryCache[k]]
    /\ lastWrite' = [k \in Keys |-> IF Includes(k, pattern) THEN NoWrite ELSE lastWrite[k]]
    /\ IF ~RedisUsable
       THEN /\ lastOp' = OpOutcome("clear", "skipped")
            /\ UNCHANGED redisStore
       ELSE IF redisState # "open"
       THEN /\ lastOp' = OpCatch("clear")
            /\ UNCHANGED redisStore
       ELSE /\ redisStore' = [k \in Keys |-> IF Includes(k, pattern) THEN NoEntry ELSE redisStore[k]]
            /\ lastOp' = OpOutcome("clear", "ok")
    /\ UNCHANGED <<workVars, directVars, redisState, ticks, gw, orchVars>>

----------------------------------------------------------------------------
(* Queues, job types and worker handlers *)

\* the queue and the job type each subtask enqueues, and the property of
\* the job's result it reads
QueueOf(kind) ==
    CASE kind = "caption" -> "IMAGE_ANALYSIS"
      [] kind = "objects" -> "IMAGE_ANALYSIS"
      [] kind = "faces" -> "FACE_RECOGNITION"
      [] kind = "text" -> "OCR_EXTRACTION"
      [] kind = "scene" -> "IMAGE_ANALYSIS"
      [] kind = "tags" -> "TAG_GENERATION"

JobTypeOf(kind) ==
    CASE kind = "caption" -> "GENERATE_CAPTION"
      [] kind = "objects" -> "DETECT_OBJECTS"
      [] kind = "faces" -> "DETECT_FACES"
      [] kind = "text" -> "EXTRACT_TEXT"
      [] kind = "scene" -> "CLASSIFY_SCENE"
      [] kind = "tags" -> "GENERATE_TAGS"

ResultField(kind) ==
    CASE kind = "caption" -> "caption"
      [] kind = "objects" -> "objects"
      [] kind = "faces" -> "faces"
      [] kind = "text" -> "text"
      [] kind = "scene" -> "scene"
      [] kind = "tags" -> "tags"

\* the job types the processor registered on a queue dispatches
Handles(queue) ==
    CASE queue = "IMAGE_ANALYSIS" ->
            {"ANALYZE_IMAGE", "GENERATE_CAPTION", "DETECT_OBJECTS", "CLASSIFY_SCENE"}
      [] queue = "FACE_RECOGNITION" -> {"DETECT_FACES", "RECOGNIZE_FACES", "TRAIN_FACE_MODEL"}
      [] queue = "TAG_GENERATION" -> {"GENERATE_TAGS", "VERIFY_TAGS"}
      [] queue = "OCR_EXTRACTION" -> {"EXTRACT_TEXT"}
      [] queue = "NOTIFICATION" -> {"SEND_NOTIFICATION"}

DetectedObject(name) == Obj(<< <<"name", Str(name)>> >>)
TagOf(name, category) == Obj(<< <<"name", Str(name)>>, <<"category", Str(category)>> >>)

\* what each handler produces: the caption, the objects, the scene, ...
CaptionValue == Str("A family gathering with people smiling and enjoying time together")
ObjectsValue == Arr(<<DetectedObject("person"), DetectedObject("cake"), DetectedObject("table")>>)
SceneValue == Obj(<< <<"type", Str("indoor celebration")>>, <<"confidence", Str("0.92")>> >>)
FacesValue == Arr(<<Obj(<< <<"confidence", Str("0.95")>> >>), Obj(<< <<"confidence", Str("0.92")>> >>)>>)
TextValue == Arr(<<Str("Happy Birthday"), Str("John Smith"), Str("40th Birthday"), Str("June 15, 2024")>>)
TagsValue ==
    Arr(<<TagOf("family", "person"), TagOf("celebration", "event"), TagOf("cake", "object"),
          TagOf("happiness", "emotion"), TagOf("indoor", "location"), TagOf("gathering", "activity"),
          TagOf("birthday", "event"), TagOf("presents", "object")>>)

Produced(kind) ==
    CASE kind = "caption" -> CaptionValue
      [] kind = "objects" -> ObjectsValue
      [] kind = "faces" -> FacesValue
      [] kind = "text" -> TextValue
      [] kind = "scene" -> SceneValue
      [] kind = "tags" -> TagsValue

\* worker generateCaption: return { caption: ... }
HandlerCaption == Obj(<< <<"caption", CaptionValue>> >>)
\* worker detectObjects: return [ ... ], the array itself
HandlerObjects == ObjectsValue
\* worker classifyScene: return { type, confidence }, the scene itself
HandlerScene == SceneValue
\* worker detectFaces: return { faces: [...] }
HandlerFaces == Obj(<< <<"faces", FacesValue>> >>)
\* worker extractText: return { text: [...] }
HandlerText == Obj(<< <<"text", TextValue>> >>)
\* worker generateTags: return { tags: [...] }
HandlerTags == Obj(<< <<"tags", TagsValue>> >>)

\* the value a processor's switch returns for a job type it dispatches
HandlerReturn(name) ==
    CASE name = "GENERATE_CAPTION" -> HandlerCaption
      [] name = "DETECT_OBJECTS" -> HandlerObjects
      [] name = "CLASSIFY_SCENE" -> HandlerScene
      [] name = "DETECT_FACES" -> HandlerFaces
      [] name = "EXTRACT_TEXT" -> HandlerText
      [] name = "GENERATE_TAGS" -> HandlerTags
      [] OTHER -> Undefined

JobSlots == Kinds \cup {"tags"}
NoJob == [state |-> "none", queue |-> "", name |-> "", returnvalue |-> Undefined]
\* addJob(queue, name, data): the job as the queue stores it
NewJob(queue, name) == [state |-> "waiting", queue |-> queue, name |-> name, returnvalue |-> Undefined]
\* job.finished() has settled
Finished(job) == job.state \in {"completed", "failed"}

----------------------------------------------------------------------------
(* AIService.analyzeImage and its subtasks.  A subtask is                  *)
(* getWithCache(`${kind}:${hash}`, enqueue-and-wait, 86400) inside a        *)
(* try/catch that answers null.                                             *)
(*   pc: init -> await (job of the try) -> settled                          *)
(*       throw inside the try -> catch -> reawait (job of the catch)        *)
(* val: what the subtask resolved with; enq: jobs it enqueued; src: where   *)
(* val came from ("l1", "l2", "job", "retry", "error", "off"); wrote: it    *)
(* has written its key into the memory cache                               *)

InitSub == [pc |-> "init", val |-> Undefined, enq |-> 0, src |-> "none", wrote |-> FALSE]
\* a disabled kind that is looked up in the memory cache all the same
OffSubLookedUp == [pc |-> "settled", val |-> CaptionValue, enq |-> 0, src |-> "l1", wrote |-> FALSE]

\* Promise.resolve(null) of a disabled kind
OffSub == [pc |-> "settled", val |-> Null, enq |-> 0, src |-> "off", wrote |-> FALSE]

SubResolve(sub, v, src) == [sub EXCEPT !.pc = "settled", !.val = v, !.src = src]

\* a subtask without its own catch: the task rejects
SubtaskCatchRethrow(sub) == [sub EXCEPT !.pc = "rejected"]

\* the subtask's own catch: log and return null
SubtaskCatch(sub) == [sub EXCEPT !.pc = "settled", !.val = Null, !.src = "error"]

\* getWithCache's catch block: the next step is `return fetchFn()`
CacheCatch(sub) == [sub EXCEPT !.pc = "catch"]

SubKey(kind) == CacheKey(kind, HashBuffer(aOpts.buf))

\* Promise.all(tasks): rejected as soon as one task rejects, fulfilled when
\* all are fulfilled
PromiseAll(subs) ==
    IF \E k \in Kinds : subs[k].pc = "rejected" THEN "rejected"
    ELSE IF \A k \in Kinds : subs[k].pc = "settled" THEN "fulfilled"
    ELSE "pending"

AnalyzeOptions ==
    { [buf |-> b, enabled |-> e, generateTags |-> g] :
        b \in Buffers, e \in {Kinds, Kinds \ {"faces", "text"}}, g \in {TRUE} }
    \cup { [buf |-> b, enabled |-> {}, generateTags |-> FALSE] : b \in Buffers }

\* getWithCache lines 43-64 for one task, up to its first wait on a job:
\* L1, then Redis, then fetchFn's addJob.  The result is the subtask, the
\* job enqueued (NoJob when none) and the L1 entry of the key afterwards.
SubBegin(key, kind) ==
    LET memCached == L1Get(memoryCache, key)
        redisCached == RedisGet(redisStore, key)
        same == [job |-> NoJob, l1 |-> memoryCache[key]]
    IN  IF Truthy(memCached)
        THEN [sub |-> SubResolve(InitSub, memCached, "l1")] @@ same
        ELSE IF RedisUsable /\ redisState = "error"
        THEN [sub |-> CacheCatch(InitSub)] @@ same
        ELSE IF RedisUsable /\ redisCached # Null
        THEN [sub |-> SubResolve(InitSub, JSONParse(redisCached), "l2"),
              job |-> NoJob, l1 |-> Entry(JSONParse(redisCached), StdTTL)]
        ELSE IF queueState = "down"
        THEN [sub |-> CacheCatch(InitSub)] @@ same
        ELSE [sub |-> [InitSub EXCEPT !.pc = "await", !.enq = 1],
              job |-> NewJob(QueueOf(kind), JobTypeOf(kind)), l1 |-> memoryCache[key]]

\* analyzeImage(imageBuffer, options), lines 106-158: the hash, then every
\* enabled task is created and runs to its first wait; the tasks use
\* disjoint keys
AnalyzeImage(o) ==
    /\ aPc \in {"idle", "returned", "raised"}
    /\ aPc' = "fanout"
    /\ aOpts' = o
    /\ LET hash == HashBuffer(o.buf)
           begun == [k \in o.enabled |-> SubBegin(CacheKey(k, hash), k)]
       IN  /\ st' = [k \in Kinds |-> IF k \in o.enabled THEN begun[k].sub ELSE OffSub]
           /\ jobs' = [j \in JobSlots |-> IF j \in o.enabled THEN begun[j].job ELSE NoJob]
           /\ memoryCache' = [key \in Keys |->
                 IF \E k \in o.enabled : key = CacheKey(k, hash)
                 THEN begun[CHOOSE k \in o.enabled : key = CacheKey(k, hash)].l1
                 ELSE memoryCache[key]]
    /\ aTags' = Null
    /\ UNCHANGED <<workVars, storeVars, directVars, redisStore, redisState, ticks, gw, queueState, failing, faults>>

\* the job of the try has finished: lines 210-211 and getWithCache lines 64-72
SubJobSettles(k) ==
    /\ aPc = "fanout"
    /\ st[k].pc = "await"
    /\ Finished(jobs[k])
    /\ LET key == SubKey(k)
           data == GetProp(jobs[k].returnvalue, ResultField(k))
           doc == JSONStringify(data)
       IN  IF jobs[k].state = "failed"
           THEN /\ st' = [st EXCEPT ![k] = CacheCatch(@)]
                /\ UNCHANGED <<memoryCache, redisStore>>
           ELSE /\ memoryCache' = L1Set(memoryCache, key, data)
                /\ IF RedisUsable /\ RedisRejects(doc)
                   THEN /\ st' = [st EXCEPT ![k] = CacheCatch([@ EXCEPT !.wrote = TRUE])]
                        /\ UNCHANGED redisStore
                   ELSE /\ redisStore' = IF RedisUsable
                                         THEN RedisSetEx(redisStore, key, DayTTL, doc)
                                         ELSE redisStore
                        /\ st' = [st EXCEPT ![k] =
                                    SubResolve([@ EXCEPT !.wrote = TRUE], data, "job")]
    /\ UNCHANGED <<workVars, storeVars, directVars, redisState, ticks, gw, aPc, aOpts, aTags, jobs, queueState, failing, faults>>

\* getWithCache line 76, `return fetchFn()`: a second job is enqueued
SubCatch(k) ==
    /\ aPc = "fanout"
    /\ st[k].pc = "catch"
    /\ IF queueState = "down"
       THEN /\ st' = [st EXCEPT ![k] = SubtaskCatch(@)]
            /\ UNCHANGED jobs
       ELSE /\ jobs' = [jobs EXCEPT ![k] = NewJob(QueueOf(k), JobTypeOf(k))]
            /\ st' = [st EXCEPT ![k] = [@ EXCEPT !.pc = "reawait", !.enq = @ + 1]]
    /\ UNCHANGED <<workVars, storeVars, directVars, cacheVars, gw, aPc, aOpts, aTags, queueState, failing, faults>>

\* the job of the catch has finished: its value is returned, nothing is cached
SubRejobSettles(k) ==
    /\ aPc = "fanout"
    /\ st[k].pc = "reawait"
    /\ Finished(jobs[k])
    /\ st' = [st EXCEPT ![k] =
                IF jobs[k].state = "failed" THEN SubtaskCatch(@)
                ELSE SubResolve(@, GetProp(jobs[k].returnvalue, ResultField(k)), "retry")]
    /\ UNCHANGED <<workVars, storeVars, directVars, cacheVars, gw, aPc, aOpts, aTags, jobs, queueState, failing, faults>>

\* objects?.map(o => o.name) throws when objects is neither nullish nor an array
MapThrows(v) == v.t \notin {"undefined", "null", "array"}

\* lines 158-169: Promise.all has settled; generateTags enqueues its job
AnalyzeFanIn ==
    /\ aPc = "fanout"
    /\ PromiseAll(st) # "pending"
    /\ IF PromiseAll(st) = "rejected" \/ (aOpts.generateTags /\ MapThrows(st["objects"].val))
       THEN /\ aPc' = "raised"
            /\ UNCHANGED jobs
       ELSE IF aOpts.generateTags /\ queueState = "up"
       THEN /\ jobs' = [jobs EXCEPT !["tags"] = NewJob(QueueOf("tags"), JobTypeOf("tags"))]
            /\ aPc' = "tags"
       ELSE /\ aPc' = "returned"
            /\ UNCHANGED jobs
    /\ UNCHANGED <<workVars, storeVars, directVars, cacheVars, gw, aOpts, st, aTags, queueState, failing, faults>>

\* generateTags lines 392-397, then analyzeImage returns
TagJobSettles ==
    /\ aPc = "tags"
    /\ Finished(jobs["tags"])
    /\ aTags' = IF jobs["tags"].state = "failed" THEN Null
                ELSE GetProp(jobs["tags"].returnvalue, ResultField("tags"))
    /\ aPc' = "returned"
    /\ UNCHANGED <<workVars, storeVars, directVars, cacheVars, gw, aOpts, st, jobs, queueState, failing, faults>>

\* the object analyzeImage returns (lines 174-182)
Aggregate ==
    [caption |-> st["caption"].val, objects |-> st["objects"].val, faces |-> st["faces"].val,
     extractedText |-> st["text"].val, scene |-> st["scene"].val, tags |-> aTags]

----------------------------------------------------------------------------
(* Workers: queue.process('*', processor) *)

\* a worker takes the job and runs the processor on it: the switch reaches the
\* handler or throws `Unknown job type`; the handler returns its value or throws
\* when its provider is unavailable, and the processor rethrows
WorkerProcess(j) ==
    /\ jobs[j].state = "waiting"
    /\ jobs' = [jobs EXCEPT ![j] =
                  IF jobs[j].name \in Handles(jobs[j].queue) /\ jobs[j].name \notin failing
                  THEN [@ EXCEPT !.state = "completed", !.returnvalue = HandlerReturn(jobs[j].name)]
                  ELSE [@ EXCEPT !.state = "failed"]]
    /\ UNCHANGED <<workVars, storeVars, directVars, cacheVars, gw, aPc, aOpts, st, aTags, queueState, failing, faults>>

----------------------------------------------------------------------------
(* Environment of the orchestrator *)

JobTypes == {JobTypeOf(j) : j \in JobSlots}

\* the provider behind a handler becomes unavailable or comes back; only a
\* waiting job of that type can observe the change
ProviderChange(name) ==
    /\ faults < MaxFaults
    /\ \E j \in JobSlots : jobs[j].state = "waiting" /\ jobs[j].name = name
    /\ faults' = faults + 1
    /\ failing' = IF name \in failing THEN failing \ {name} ELSE failing \cup {name}
    /\ UNCHANGED <<workVars, storeVars, directVars, cacheVars, gw, aPc, aOpts, st, aTags, jobs, queueState>>

\* the queues' connection goes down or comes back
QueueChange ==
    /\ faults < MaxFaults
    /\ faults' = faults + 1
    /\ queueState' = IF queueState = "up" THEN "down" ELSE "up"
    /\ UNCHANGED <<workVars, storeVars, directVars, cacheVars, gw, aPc, aOpts, st, aTags, jobs, failing>>

\* the Redis connection changes while the orchestrator runs
RedisFault(rs) ==
    /\ faults < MaxFaults
    /\ rs # redisState
    /\ faults' = faults + 1
    /\ redisState' = rs
    /\ UNCHANGED <<workVars, storeVars, directVars, memoryCache, redisStore, ticks, gw, aPc, aOpts, st, aTags, jobs,
                   queueState, failing>>

\* the process restarts between two calls: its NodeCache starts empty
RestartProcess ==
    /\ aPc \in {"idle", "returned", "raised"}
    /\ NoCallInFlight
    /\ \E k \in Keys : memoryCache[k].present
    /\ memoryCache' = [k \in Keys |-> NoEntry]
    /\ lastWrite' = WriteCold(lastWrite)
    /\ UNCHANGED <<workVars, lastOp, directVars, redisStore, redisState, ticks, gw, orchVars>>

----------------------------------------------------------------------------
(* Jobs enqueued by the controllers, the processors that run them and the  *)
(* rows processImageAnalysis writes.  The queue itself (attempts, retry,   *)
(* redelivery of a job whose worker died before acknowledging) follows the *)
(* job lifecycle: waiting -> active -> completed | waiting (retry) | failed *)

WorkSlots == {"analysis", "embedding"}

\* the worker processes that serve the queues
Workers == {"w1", "w2"}

\* attempts of a job enqueued without the option
DefaultAttempts == 1
\* attempts: 3 of createPerson
FaceAttempts == 3

MaxRedeliveries == 1

\* options of the ANALYZE_IMAGE payload
WorkOptions == [autoTag : BOOLEAN, detectFaces : BOOLEAN, extractText : BOOLEAN]
NoOptions == [autoTag |-> FALSE, detectFaces |-> FALSE, extractText |-> FALSE]

\* the memory row and the tag and face-detection rows of the memory
NoMemory == [status |-> "none", caption |-> "null", metadata |-> "null", tags |-> <<>>, faces |-> <<>>]
NewMemory == [NoMemory EXCEPT !.status = "pending"]

\* owners: the workers that hold the job; returned: the processor of the
\* current run has resolved; delivered: what job.finished() has settled with;
\* ran: runs of the handler; threw: runs that threw; done: runs that
\* returned; first: the rows as the first run that returned left them
NoWork ==
    [state |-> "none", queue |-> "", name |-> "", options |-> NoOptions,
     maxAttempts |-> 0, attemptsMade |-> 0, owners |-> {}, returned |-> FALSE,
     delivered |-> "none", ran |-> 0, threw |-> 0, done |-> 0,
     redelivered |-> 0, first |-> NoMemory]
NewWork(queue, name, attempts, options) ==
    [NoWork EXCEPT !.state = "waiting", !.queue = queue, !.name = name,
                   !.options = options, !.maxAttempts = attempts]

\* the results object of processImageAnalysis (lines 44-103)
AnalysisResults(options) ==
    [caption |-> IF options.autoTag THEN "a caption" ELSE "null",
     objects |-> IF options.autoTag THEN <<"Dog">> ELSE <<>>,
     faces |-> IF options.detectFaces THEN <<[bounding_box |-> "box", confidence |-> 95]>> ELSE <<>>,
     extractedText |-> IF options.extractText THEN <<"Sample text from image">> ELSE <<>>,
     scene |-> IF options.autoTag THEN "Beach" ELSE "null",
     tags |-> IF options.autoTag
              THEN <<[tag_name |-> "family", tag_category |-> "person"],
                     [tag_name |-> "outdoors", tag_category |-> "location"]>>
              ELSE <<>>]

\* lines 117-139: each tag is inserted unless a row with its name exists
RECURSIVE InsertTags(_, _)
InsertTags(rows, tags) ==
    IF tags = <<>> THEN rows
    ELSE LET existingTag == \E i \in 1..Len(rows) : rows[i].tag_name = Head(tags).tag_name
         IN  InsertTags(IF existingTag THEN rows ELSE Append(rows, Head(tags)), Tail(tags))

\* lines 142-153: each face is inserted
InsertFaces(rows, faces) == rows \o faces

\* processImageAnalysis lines 34-38: the first statement of the handler
ProcessImageAnalysisBegins(memory) == [memory EXCEPT !.status = "processing"]

\* processImageAnalysis when nothing throws (lines 40-156)
ProcessImageAnalysis(memory, options) ==
    LET results == AnalysisResults(options)
    IN  [status |-> "completed",
         caption |-> results.caption,
         metadata |-> results,
         tags |-> InsertTags(memory.tags, results.tags),
         faces |-> InsertFaces(memory.faces, results.faces)]

\* a catch block that rethrows without marking the memory as failed
ProcessImageAnalysisThrowsOnly(memory) == memory

\* processImageAnalysis when the image fetch or a provider throws (lines
\* 40-41 and 157-170)
ProcessImageAnalysisThrows(memory) ==
    [memory EXCEPT !.status = "failed", !.metadata = "error"]

\* a processor whose catch block swallows the error
ProcessorCatchSwallow == "resolved"

\* the catch block of a processor (imageAnalysisWorker.ts lines 24-27): log
\* and rethrow, so the processor's promise rejects
ProcessorCatch == "rejected"

\* the processor on a job: its switch reaches a handler or throws `Unknown
\* job type`; a handler throws when its provider is unavailable
ProcessorOutcome(job) ==
    IF job.name \in Handles(job.queue) /\ job.name \notin failing
    THEN "resolved"
    ELSE ProcessorCatch

\* a queue that lets every failed attempt wait again
QueueSettleAlwaysRetry(job, outcome) ==
    IF outcome = "rejected"
    THEN [job EXCEPT !.attemptsMade = @ + 1, !.state = "waiting", !.owners = {}]
    ELSE [job EXCEPT !.returned = TRUE]

\* the queue on the outcome of a run: a rejected attempt is counted and the
\* job waits again while attempts remain, else it has failed and its
\* waiters are told; a resolved one awaits its acknowledgment
QueueSettle(job, outcome) ==
    IF outcome = "rejected"
    THEN IF job.attemptsMade + 1 < job.maxAttempts
         THEN [job EXCEPT !.attemptsMade = @ + 1, !.state = "waiting", !.owners = {}]
         ELSE [job EXCEPT !.attemptsMade = @ + 1, !.state = "failed", !.owners = {},
                          !.delivered = "failure"]
    ELSE [job EXCEPT !.returned = TRUE]

\* a queue that hands a job to a worker while another one holds it
ClaimableWhileHeld(job) == job.state \in {"waiting", "active"} /\ ~job.returned

\* the queue hands only a waiting job to a worker
Claimable(job) == job.state = "waiting"

\* analyzeMemories (memoryController.ts lines 87-102): addJob with priority only
AnalyzeMemories(options) ==
    /\ work["analysis"].state = "none"
    /\ work' = [work EXCEPT !["analysis"] =
                  NewWork("IMAGE_ANALYSIS", "ANALYZE_IMAGE", DefaultAttempts, options)]
    /\ db' = NewMemory
    /\ UNCHANGED <<storeVars, directVars, cacheVars, gw, orchVars>>

\* createPerson (peopleController.ts lines 99-111): attempts: 3
CreatePerson ==
    /\ work["embedding"].state = "none"
    /\ work' = [work EXCEPT !["embedding"] =
                  NewWork("FACE_RECOGNITION", "extract-face-embedding", FaceAttempts, NoOptions)]
    /\ UNCHANGED <<db, storeVars, directVars, cacheVars, gw, orchVars>>

\* a worker takes the job: it is active on that worker, whose processor
\* starts; processImageAnalysis first marks the memory as processing
WorkerTake(w, slot) ==
    /\ Claimable(work[slot])
    /\ w \notin work[slot].owners
    /\ work' = [work EXCEPT ![slot] =
                  [@ EXCEPT !.state = "active", !.owners = @ \cup {w}, !.returned = FALSE]]
    /\ db' = IF work[slot].name = "ANALYZE_IMAGE" /\ work[slot].name \in Handles(work[slot].queue)
             THEN ProcessImageAnalysisBegins(db)
             ELSE db
    /\ UNCHANGED <<storeVars, directVars, cacheVars, gw, orchVars>>

\* the processor of the worker that holds the job settles
WorkerRun(slot) ==
    /\ work[slot].state = "active"
    /\ ~work[slot].returned
    /\ LET job == work[slot]
           threw == job.name \notin Handles(job.queue) \/ job.name \in failing
           memory == IF job.name # "ANALYZE_IMAGE" THEN db
                     ELSE IF threw THEN ProcessImageAnalysisThrows(db)
                     ELSE ProcessImageAnalysis(db, job.options)
           counted == [job EXCEPT !.ran = @ + 1,
                                  !.threw = IF threw THEN @ + 1 ELSE @,
                                  !.done = IF threw THEN @ ELSE @ + 1,
                                  !.first = IF ~threw /\ job.done = 0 THEN memory ELSE @]
       IN  /\ db' = memory
           /\ work' = [work EXCEPT ![slot] = QueueSettle(counted, ProcessorOutcome(job))]
    /\ UNCHANGED <<storeVars, directVars, cacheVars, gw, orchVars>>

\* the worker acknowledges the run that returned: the job is completed and
\* its waiters get the result
Acknowledge(slot) ==
    /\ work[slot].state = "active"
    /\ work[slot].returned
    /\ work' = [work EXCEPT ![slot] =
                  [@ EXCEPT !.state = "completed", !.owners = {}, !.delivered = "result"]]
    /\ UNCHANGED <<db, storeVars, directVars, cacheVars, gw, orchVars>>

\* the worker that holds the job dies before the acknowledgment: the queue
\* delivers the job again
WorkerCrash(slot) ==
    /\ work[slot].state = "active"
    /\ work[slot].redelivered < MaxRedeliveries
    /\ work' = [work EXCEPT ![slot] =
                  [@ EXCEPT !.state = "waiting", !.owners = {}, !.returned = FALSE,
                            !.redelivered = @ + 1]]
    /\ UNCHANGED <<db, storeVars, directVars, cacheVars, gw, orchVars>>

\* the image host or a provider of processImageAnalysis goes away or comes
\* back while its job waits
FetchChange ==
    /\ faults < MaxFaults
    /\ work["analysis"].state = "waiting"
    /\ faults' = faults + 1
    /\ failing' = IF "ANALYZE_IMAGE" \in failing THEN failing \ {"ANALYZE_IMAGE"}
                  ELSE failing \cup {"ANALYZE_IMAGE"}
    /\ UNCHANGED <<workVars, storeVars, directVars, cacheVars, gw, aPc, aOpts, st, aTags, jobs, queueState>>

----------------------------------------------------------------------------
(* AIAnalysisService: the service that calls the providers directly.  An   *)
(* image stands for its content: what each provider answers for it (the   *)
(* providers find nothing to tell "card" and "dunes" apart).  A caption is *)
(* the sequence of its words, split(/\s+/) of the text.                    *)

Images == {"beach", "card", "dunes"}
DirectKinds == {"caption", "objects", "faces", "text", "scene", "emotions"}

\* what the provider of a kind answers for an image, as the subtask turns it
\* into its value (generated_text, labels over the threshold, lines, label)
ProviderValue(kind, img) ==
    CASE kind = "caption" -> IF img = "beach" THEN <<"Dog", "with", "ball">> ELSE <<"a", "dog">>
      [] kind = "objects" -> IF img = "beach" THEN <<"Dog", "ball">> ELSE <<>>
      [] kind = "faces" -> IF img = "beach" THEN <<"face">> ELSE <<>>
      [] kind = "text" -> IF img = "beach" THEN <<>> ELSE <<"Happy Birthday">>
      [] kind = "scene" -> IF img = "beach" THEN "Beach" ELSE "unknown"
      [] kind = "emotions" -> IF img = "beach" THEN <<"joy">> ELSE <<>>

\* the caption OpenAI answers when the first provider has failed
OpenAICaption == <<"A", "photo">>

\* what a subtask returns from its catch block
Placeholder(kind) ==
    CASE kind = "caption" -> <<"No", "caption", "available">>
      [] kind = "scene" -> "unknown"
      [] OTHER -> <<>>

\* hashBuffer: the first 20 characters of the base64 text, which the first
\* 15 bytes of the buffer determine
\* the bytes of an image: its first 15 bytes and the rest
ImageBytes(img) ==
    CASE img = "beach" -> <<"head1", "rest1">>
      [] img = "dunes" -> <<"head1", "rest2">>
      [] img = "card" -> <<"head2", "rest1">>
ImageHead(img) == ImageBytes(img)[1]
DirectHashBuffer(img) == ImageHead(img)

\* String.prototype.toLowerCase on the words of the vocabulary
ToLowerCase(w) ==
    CASE w = "Dog" -> "dog"
      [] w = "Beach" -> "beach"
      [] w = "No" -> "no"
      [] w = "A" -> "a"
      [] OTHER -> w

SmartTag(name, category) == [name |-> name, category |-> category]

StopWords == {"this", "that", "with", "from", "have", "there"}

\* potentialTags.forEach: a word becomes an activity tag unless a tag of
\* that name exists
RECURSIVE AddPotentialTags(_, _)
AddPotentialTags(tags, words) ==
    IF words = <<>> THEN tags
    ELSE AddPotentialTags(
            IF \E i \in 1..Len(tags) : tags[i].name = Head(words)
            THEN tags
            ELSE Append(tags, SmartTag(Head(words), "activity")),
            Tail(words))

\* extractTagsFromText(caption, objects, scene, emotions)
ExtractTagsFromText(caption, objects, scene, emotions) ==
    LET objectTags == [i \in 1..Len(objects) |-> SmartTag(ToLowerCase(objects[i]), "object")]
        sceneTags == IF scene # "" /\ scene # "unknown"
                     THEN <<SmartTag(ToLowerCase(scene), "location")>> ELSE <<>>
        emotionTags == [i \in 1..Len(emotions) |-> SmartTag(ToLowerCase(emotions[i]), "emotion")]
        words == [i \in 1..Len(caption) |-> ToLowerCase(caption[i])]
        IsPotential(w) == Len(w) > 3 /\ w \notin StopWords
    IN  AddPotentialTags(objectTags \o sceneTags \o emotionTags, SelectSeq(words, IsPotential))

\* the tags a usable answer of the tag model parses to
ProviderTags == <<SmartTag("dog", "object"), SmartTag("outdoors", "location")>>

\* answers of the tag model: a JSON array, an empty text, a text that does
\* not parse
TagResponses == {"json", "empty", "garbage"}

RECURSIVE JoinWith(_, _)
\* Array.prototype.join(sep); JoinWith(words, " ") is the caption's text
JoinWith(xs, sep) ==
    IF xs = <<>> THEN ""
    ELSE IF Len(xs) = 1 THEN xs[1]
    ELSE xs[1] \o sep \o JoinWith(Tail(xs), sep)

\* `tags:${hashString(caption + objects.join(',') + scene + emotions.join(','))}`;
\* the 32-bit hash is taken as collision-free on this vocabulary
TagsKey(caption, objects, scene, emotions) ==
    "tags:" \o JoinWith(caption, " ") \o JoinWith(objects, ",") \o scene \o JoinWith(emotions, ",")

DirectKey(kind, img) == kind \o ":" \o DirectHashBuffer(img)

DirectKeys ==
    {DirectKey(k, i) : k \in DirectKinds, i \in Images}

\* cacheService.get(key): the value, or a miss
DirectCacheHit(key) == key \in DOMAIN aiCache
\* cacheService.set(key, value, ttl)
DirectCacheSet(cache, key, value, ttl) ==
    [k \in DOMAIN cache \cup {key} |-> IF k = key THEN [v |-> value, ttl |-> ttl] ELSE cache[k]]

\* one subtask, lines 102-138 and siblings: the cached value, else the
\* provider's answer (cached for 24 hours), else the catch block's value
DirectSubtask(kind, img, down, openai) ==
    LET key == DirectKey(kind, img)
    IN  IF DirectCacheHit(key)
        THEN [val |-> aiCache[key].v, ok |-> TRUE, store |-> FALSE]
        ELSE IF kind \notin down
        THEN [val |-> ProviderValue(kind, img), ok |-> TRUE, store |-> TRUE]
        ELSE IF kind = "caption" /\ openai
        THEN [val |-> OpenAICaption, ok |-> TRUE, store |-> FALSE]
        ELSE [val |-> Placeholder(kind), ok |-> FALSE, store |-> FALSE]

NoResults == [k \in DirectKinds |-> Placeholder(k)]

\* analyzeImage(imageBuffer) is called (line 63)
DirectAnalyze(img) ==
    /\ aiPc \in {"idle", "returned"}
    /\ aiRuns < MaxRuns
    /\ aiRuns' = aiRuns + 1
    /\ aiPc' = "fanout"
    /\ aiImage' = img
    /\ aiResults' = NoResults
    /\ aiOk' = {}
    /\ aiTags' = <<>>
    /\ aiTagSrc' = "none"
    /\ UNCHANGED <<workVars, storeVars, aiCache, cacheVars, gw, orchVars>>

\* Promise.allSettled (lines 68-75): the six subtasks have settled; `down`
\* are the kinds whose provider call throws, `openai` whether a key for the
\* OpenAI fallback is configured
DirectAllSettled(down, openai) ==
    /\ aiPc = "fanout"
    /\ LET sub == [k \in DirectKinds |-> DirectSubtask(k, aiImage, down, openai)]
       IN  /\ aiResults' = [k \in DirectKinds |-> sub[k].val]
           /\ aiOk' = {k \in DirectKinds : sub[k].ok}
           /\ aiCache' = [key \in DOMAIN aiCache \cup
                                  {DirectKey(k, aiImage) : k \in {x \in DirectKinds : sub[x].store}} |->
                 IF \E k \in DirectKinds : sub[k].store /\ key = DirectKey(k, aiImage)
                 THEN [v |-> sub[CHOOSE k \in DirectKinds : key = DirectKey(k, aiImage)].val,
                       ttl |-> DayTTL]
                 ELSE aiCache[key]]
    /\ aiPc' = "lookup"
    /\ UNCHANGED <<workVars, storeVars, aiImage, aiTags, aiTagSrc, aiRuns, cacheVars, gw, orchVars>>

\* the key generateSmartTags builds from its arguments (line 384)
CurrentTagsKey ==
    TagsKey(aiResults["caption"], aiResults["objects"], aiResults["scene"], aiResults["emotions"])

\* the fallback of generateSmartTags on the results of the call
FallbackTags ==
    ExtractTagsFromText(aiResults["caption"], aiResults["objects"],
                        aiResults["scene"], aiResults["emotions"])

\* generateSmartTags lines 384-386: the cached tags are returned
DirectTagsLookup ==
    /\ aiPc = "lookup"
    /\ IF DirectCacheHit(CurrentTagsKey)
       THEN /\ aiTags' = aiCache[CurrentTagsKey].v
            /\ aiTagSrc' = "cache"
            /\ aiPc' = "returned"
       ELSE /\ aiPc' = "provider"
            /\ UNCHANGED <<aiTags, aiTagSrc>>
    /\ UNCHANGED <<workVars, storeVars, aiImage, aiResults, aiOk, aiCache, aiRuns, cacheVars, gw, orchVars>>

\* lines 408-443: the tag model answers; the answer parses, or the
\* extractor replaces it; the tags are cached and returned
DirectTagModelAnswers(resp) ==
    /\ aiPc = "provider"
    /\ LET tags == IF resp = "json" THEN ProviderTags ELSE FallbackTags
       IN  /\ aiTags' = tags
           /\ aiCache' = DirectCacheSet(aiCache, CurrentTagsKey, tags, DayTTL)
    /\ aiTagSrc' = IF resp = "json" THEN "provider" ELSE "fallback"
    /\ aiPc' = "returned"
    /\ UNCHANGED <<workVars, storeVars, aiImage, aiResults, aiOk, aiRuns, cacheVars, gw, orchVars>>

\* lines 444-447: the call of the tag model throws; the extractor's tags
\* are returned and nothing is cached
DirectTagModelFails ==
    /\ aiPc = "provider"
    /\ aiTags' = FallbackTags
    /\ aiTagSrc' = "fallback"
    /\ aiPc' = "returned"
    /\ UNCHANGED <<workVars, storeVars, aiImage, aiResults, aiOk, aiCache, aiRuns, cacheVars, gw, orchVars>>

\* the subsets of kinds whose provider may be failing during one call
DownSets == {{}, DirectKinds} \cup {{k} : k \in DirectKinds}

InitDirect ==
    /\ aiPc = "idle"
    /\ aiImage = "beach"
    /\ aiResults = NoResults
    /\ aiOk = {}
    /\ aiTags = <<>>
    /\ aiTagSrc = "none"
    /\ aiCache = <<>>
    /\ aiRuns = 0

----------------------------------------------------------------------------
(* Specification of the cache alone *)

InitStore ==
    /\ lastOp = NoOp
    /\ lastWrite = [k \in Keys |-> NoWrite]
    /\ work = [slot \in WorkSlots |-> NoWork]
    /\ db = NoMemory

InitCache ==
    /\ memoryCache = [k \in Keys |-> NoEntry]
    /\ redisStore = [k \in Keys |-> NoEntry]
    /\ redisState \in RedisStates
    /\ ticks = 0
    /\ gw = [c \in Callers |-> IdleCall]
    /\ aPc = "idle"
    /\ aOpts = [buf |-> "img1", enabled |-> Kinds, generateTags |-> TRUE]
    /\ st = [k \in Kinds |-> OffSub]
    /\ aTags = Null
    /\ jobs = [j \in JobSlots |-> NoJob]
    /\ queueState = "up"
    /\ failing = {}
    /\ faults = 0
    /\ InitDirect
    /\ InitStore

NextCache ==
    \/ \E c \in Solo, key \in GwKeys, ttl \in GwTTLs : GwCall(c, key, ttl)
    \/ \E c \in Solo : GwRedisGetSettles(c)
    \/ \E c \in Solo, data \in FetchValues : GwFetchResolves(c, data)
    \/ \E c \in Solo : GwFetchRejects(c)
    \/ \E c \in Solo : GwRedisSetSettles(c)
    \/ \E c \in Solo, data \in FetchValues : GwRefetchResolves(c, data)
    \/ \E c \in Solo : GwRefetchRejects(c)
    \/ \E c \in Solo : GwDone(c)
    \/ \E rs \in RedisStates : RedisChange(rs)
    \/ \E d \in TickSteps : Tick(d)

SpecCache == InitCache /\ [][NextCache]_vars

----------------------------------------------------------------------------
(* Specification of the cache with its maintenance functions: one caller   *)
(* that looks up, sets, deletes and clears, in a process that may restart; *)
(* time passes between its operations                                      *)

\* time passes between two operations of the caller
StoreTick(d) == NoCallInFlight /\ Tick(d)

NextStore ==
    \/ \E c \in Solo, key \in GwKeys, ttl \in GwTTLs : GwCall(c, key, ttl)
    \/ \E c \in Solo : GwRedisGetSettles(c)
    \/ \E c \in Solo, data \in StoreValues : GwFetchResolves(c, data)
    \/ \E c \in Solo : GwFetchRejects(c)
    \/ \E c \in Solo : GwRedisSetSettles(c)
    \/ \E c \in Solo, data \in StoreValues : GwRefetchResolves(c, data)
    \/ \E c \in Solo : GwRefetchRejects(c)
    \/ \E c \in Solo : GwDone(c)
    \/ \E key \in StoreKeys, data \in StoreValues, ttl \in StoreTTLs : SetCache(key, data, ttl)
    \/ \E key \in StoreKeys : DeleteCache(key)
    \/ \E pattern \in Patterns : ClearCacheByPattern(pattern)
    \/ RestartProcess
    \/ \E rs \in RedisStates : RedisChange(rs)
    \/ \E d \in TickSteps : StoreTick(d)

SpecStore == InitCache /\ [][NextStore]_vars

----------------------------------------------------------------------------
(* Specification of overlapping lookups: two calls of getWithCache for the *)
(* same key in one process, each awaiting Redis and fetchFn in turn        *)

NextOverlap ==
    \/ \E c \in Callers, key \in GwKeys : GwCall(c, key, DayTTL)
    \/ \E c \in Callers : GwRedisGetSettles(c)
    \/ \E c \in Callers, data \in StoreValues : GwFetchResolves(c, data)
    \/ \E c \in Callers : GwFetchRejects(c)
    \/ \E c \in Callers : GwRedisSetSettles(c)
    \/ \E c \in Callers, data \in StoreValues : GwRefetchResolves(c, data)
    \/ \E c \in Callers : GwRefetchRejects(c)
    \/ \E c \in Callers : GwDone(c)
    \/ \E rs \in RedisStates : RedisChange(rs)

SpecOverlap == InitCache /\ [][NextOverlap]_vars

----------------------------------------------------------------------------
(* Specification of the orchestrator with its cache, queues and workers *)

Init ==
    /\ memoryCache = [k \in Keys |-> NoEntry]
    /\ redisStore = [k \in Keys |-> NoEntry]
    /\ redisState \in RedisStates
    /\ ticks = 0
    /\ gw = [c \in Callers |-> IdleCall]
    /\ aPc = "idle"
    /\ aOpts = [buf |-> "img1", enabled |-> Kinds, generateTags |-> TRUE]
    /\ st = [k \in Kinds |-> OffSub]
    /\ aTags = Null
    /\ jobs = [j \in JobSlots |-> NoJob]
    /\ queueState \in {"up", "down"}
    /\ failing = {}
    /\ faults = 0
    /\ InitDirect
    /\ InitStore

Next ==
    \/ \E o \in AnalyzeOptions : AnalyzeImage(o)
    \/ \E k \in Kinds : SubJobSettles(k)
    \/ \E k \in Kinds : SubCatch(k)
    \/ \E k \in Kinds : SubRejobSettles(k)
    \/ AnalyzeFanIn
    \/ TagJobSettles
    \/ \E j \in JobSlots : WorkerProcess(j)
    \/ \E name \in JobTypes : ProviderChange(name)
    \/ QueueChange
    \/ \E rs \in RedisStates : RedisFault(rs)
    \/ RestartProcess

Spec == Init /\ [][Next]_vars

----------------------------------------------------------------------------
(* Specification of AIAnalysisService *)

NextDirect ==
    \/ \E img \in Images : DirectAnalyze(img)
    \/ \E down \in DownSets, openai \in BOOLEAN : DirectAllSettled(down, openai)
    \/ DirectTagsLookup
    \/ \E resp \in TagResponses : DirectTagModelAnswers(resp)
    \/ DirectTagModelFails

InitService == InitCache /\ redisState = "open"

SpecDirect == InitService /\ [][NextDirect]_vars

----------------------------------------------------------------------------
(* Specification of the orchestrator under every choice of its options:    *)
(* each of the five tasks switched on or off, with and without the tags    *)

\* the options object of analyzeImage, lines 96-104 and 110-119
ToggleOptions ==
    { [buf |-> b, enabled |-> e, generateTags |-> g] :
        b \in Buffers, e \in SUBSET Kinds, g \in BOOLEAN }

NextToggles ==
    \/ \E o \in ToggleOptions : AnalyzeImage(o)
    \/ \E k \in Kinds : SubJobSettles(k)
    \/ \E k \in Kinds : SubCatch(k)
    \/ \E k \in Kinds : SubRejobSettles(k)
    \/ AnalyzeFanIn
    \/ TagJobSettles
    \/ \E j \in JobSlots : WorkerProcess(j)

SpecToggles == InitService /\ [][NextToggles]_vars

----------------------------------------------------------------------------
(* Specification of the controllers' jobs and their workers: every job     *)
(* that waits is taken by a worker and run, every run that returned is     *)
(* acknowledged unless the worker dies                                     *)

NextWorkers ==
    \/ \E options \in WorkOptions : AnalyzeMemories(options)
    \/ CreatePerson
    \/ \E w \in Workers, slot \in WorkSlots : WorkerTake(w, slot)
    \/ \E slot \in WorkSlots : WorkerRun(slot)
    \/ \E slot \in WorkSlots : Acknowledge(slot)
    \/ \E slot \in WorkSlots : WorkerCrash(slot)
    \/ FetchChange

SpecWorkers ==
    /\ InitService /\ [][NextWorkers]_vars
    /\ WF_vars(\E w \in Workers, slot \in WorkSlots : WorkerTake(w, slot))
    /\ WF_vars(\E slot \in WorkSlots : WorkerRun(slot))
    /\ WF_vars(\E slot \in WorkSlots : Acknowledge(slot))

----------------------------------------------------------------------------
(* Vocabulary of the properties of analyzeImage                            *)

\* the call has ended
Ended == aPc \in {"returned", "raised"}
\* the subtask's job ran to completion in this call
JobSucceeded(k) == st[k].src \in {"job", "retry"} /\ jobs[k].state = "completed"
\* the subtask's job failed in this call and the subtask answered null
JobFailed(k) == st[k].src = "error" /\ jobs[k].state = "failed"
\* a field of the aggregate carries nothing
Absent(v) == v.t \in {"undefined", "null"}
NonEmptyList(v) == v.t = "array" /\ Len(v.a) > 0
\* a tier holds a usable entry for the key
Holds(tier, key) == tier[key].present /\ ~Absent(tier[key].v)
\* the key is in the cache with the 24-hour ttl
Cached24h(key) ==
    \/ Holds(memoryCache, key) /\ memoryCache[key].rem = DayTTL
    \/ Holds(redisStore, key) /\ redisStore[key].rem = DayTTL
\* the tags of one category in a tag list
TagsOfCategory(tags, category) ==
    {i \in 1..Len(tags.a) : GetProp(tags.a[i], "category") = Str(category)}

----------------------------------------------------------------------------
(* C1: with exactly one of the five subtasks failing and the jobs of the   *)
(* other four completed, and no other provider unavailable, analyzeImage   *)
(* returns, the other four fields carry what their handlers produced, and  *)
(* the tags are a non-empty list.                                          *)
C1_PartialFailureTolerated ==
    \A bad \in Kinds :
        (/\ Ended
         /\ aOpts.enabled = Kinds /\ aOpts.generateTags
         /\ JobFailed(bad)
         /\ \A k \in Kinds \ {bad} : JobSucceeded(k)
         /\ failing \subseteq {JobTypeOf(bad)})
        => /\ aPc = "returned"
           /\ \A k \in Kinds \ {bad} : st[k].val = Produced(k)
           /\ NonEmptyList(aTags)

----------------------------------------------------------------------------
(* C2: a call in flight never depends on a worker: whenever analyzeImage   *)
(* is waiting, a step of the orchestrator itself (a job's settlement it    *)
(* can consume, or a timeout) is enabled.                                  *)
OrchestratorStep ==
    \/ \E k \in Kinds : SubJobSettles(k)
    \/ \E k \in Kinds : SubCatch(k)
    \/ \E k \in Kinds : SubRejobSettles(k)
    \/ AnalyzeFanIn
    \/ TagJobSettles

C2_NoStalledCaller == aPc \in {"fanout", "tags"} => ENABLED OrchestratorStep

----------------------------------------------------------------------------
(* C3: the tag job is enqueued, and the call ends, only when every subtask *)
(* has settled; no subtask's outcome lets the orchestrator go on while     *)
(* another one is pending.                                                 *)
C3_FanInBarrier ==
    (aPc \in {"tags", "returned", "raised"} \/ jobs["tags"].state # "none")
    => \A k \in Kinds : st[k].pc = "settled"

\* a call that went past the barrier with one subtask failed, one served by
\* its job, and the tag job done
C3_Witness ==
    /\ aPc = "returned"
    /\ jobs["tags"].state = "completed"
    /\ \E k \in Kinds : JobFailed(k)
    /\ \E k \in Kinds : st[k].src = "job"
    /\ \A k \in Kinds : st[k].pc = "settled"

----------------------------------------------------------------------------
(* C4: a failed subtask job never makes analyzeImage raise, and when the   *)
(* enqueue fails for every enabled subtask (the queue is unavailable) the  *)
(* call raises instead of returning an aggregate of absent fields.         *)
EnqueueFailedForAll ==
    /\ aOpts.enabled # {}
    /\ \A k \in aOpts.enabled : st[k].src = "error" /\ st[k].enq = 0

C4_ErrorPropagation ==
    /\ (aPc = "raised" => ~ \E k \in Kinds : JobFailed(k))
    /\ (Ended /\ EnqueueFailedForAll => aPc = "raised")

----------------------------------------------------------------------------
(* C5: a job is enqueued for a kind only when neither tier holds an entry  *)
(* for its key: every step that enqueues a subtask's job starts in a state *)
(* where the key is absent from the memory cache and from Redis.           *)
EnqueuesJob(k) ==
    \/ aPc # "fanout" /\ aPc' = "fanout" /\ st'[k].enq = 1
    \/ aPc = "fanout" /\ aPc' = "fanout" /\ st'[k].enq > st[k].enq

C5_NoJobWhenCached ==
    [][\A k \in Kinds :
         EnqueuesJob(k) =>
            LET key == CacheKey(k, HashBuffer(aOpts'.buf))
            IN  ~Holds(memoryCache, key) /\ ~Holds(redisStore, key)]_vars

----------------------------------------------------------------------------
(* C6: when analyzeImage has returned, the key of every subtask that       *)
(* delivered its handler's value is in the cache with the 24-hour ttl, and *)
(* a subtask that failed has written nothing and its field is absent.      *)
C6_CachePopulatedByOutcome ==
    aPc = "returned" =>
        \A k \in aOpts.enabled :
            /\ (JobSucceeded(k) /\ st[k].val = Produced(k)) => Cached24h(SubKey(k))
            /\ st[k].src = "error" => (~st[k].wrote /\ Absent(st[k].val))

----------------------------------------------------------------------------
(* C7: when the jobs of all five kinds completed, the five fields of the   *)
(* aggregate carry what the handlers produced.                             *)
C7_EndToEndPopulated ==
    (/\ aPc = "returned"
     /\ aOpts.enabled = Kinds
     /\ \A k \in Kinds : JobSucceeded(k))
    => \A k \in Kinds : st[k].val = Produced(k)

----------------------------------------------------------------------------
(* C8: when the tag job has failed, the tags of the aggregate are a list   *)
(* with at least one object tag per detected object and with exactly one   *)
(* location tag when the scene is known, none otherwise.                   *)
SceneKnown == ~Absent(st["scene"].val) /\ st["scene"].val # Str("") /\ st["scene"].val # Str("unknown")
DetectedObjects == IF st["objects"].val.t = "array" THEN st["objects"].val.a ELSE <<>>

C8_RuleBasedFallback ==
    (aPc = "returned" /\ aOpts.generateTags /\ jobs["tags"].state = "failed")
    => /\ aTags.t = "array"
       /\ \A i \in 1..Len(DetectedObjects) :
             \E j \in TagsOfCategory(aTags, "object") :
                 GetProp(aTags.a[j], "name") = GetProp(DetectedObjects[i], "name")
       /\ Cardinality(TagsOfCategory(aTags, "location")) = (IF SceneKnown THEN 1 ELSE 0)

----------------------------------------------------------------------------
(* C9: when tag generation has failed and a succeeded subtask delivered a  *)
(* signal (a caption, a detected object, a known scene or extracted text), *)
(* the tags of the aggregate are not empty.                                *)
UpstreamSignal ==
    \/ "caption" \in aiOk /\ Len(aiResults["caption"]) > 0
    \/ "objects" \in aiOk /\ Len(aiResults["objects"]) > 0
    \/ "scene" \in aiOk /\ aiResults["scene"] \notin {"", "unknown"}
    \/ "text" \in aiOk /\ Len(aiResults["text"]) > 0

C9_NonEmptyFallbackTags ==
    (aiPc = "returned" /\ aiTagSrc = "fallback" /\ UpstreamSignal) => Len(aiTags) > 0

----------------------------------------------------------------------------
(* C10: with every Redis command of the call rejecting and fetchFn        *)
(* succeeding, getWithCache does not raise and returns exactly the value   *)
(* fetchFn produced.                                                       *)
C10_L2DegradedReturnsComputed ==
    \A c \in Callers :
        (/\ gw[c].pc \in {"returned", "raised"}
         /\ gw[c].l2ops = {"rejected"}
         /\ gw[c].fails = 0)
        => /\ gw[c].pc = "returned"
           /\ gw[c].nfetch >= 1
           /\ gw[c].ret = gw[c].data

C10_Witness ==
    \E c \in Callers :
        /\ gw[c].pc = "returned"
        /\ gw[c].l2ops = {"rejected"}
        /\ gw[c].fails = 0
        /\ gw[c].nfetch = 1
        /\ gw[c].ret = Str("a caption")

----------------------------------------------------------------------------
(* Steps of the cache: which operation a step is, and how a lookup ends    *)

\* the Redis command a maintenance function issues in this state fails or
\* cannot be issued
L2Failing == redisState # "open"

\* the step concludes the lookup part of a getWithCache call: a hit returns,
\* a miss goes on to fetchFn
LookupEnds(c) ==
    /\ gw[c].pc \in {"idle", "l2get"}
    /\ gw'[c].pc \in {"returned", "fetch", "refetch"}
LookupHits(c) == LookupEnds(c) /\ gw'[c].pc = "returned"

----------------------------------------------------------------------------
(* C11: when the Redis command of setCache, deleteCache or                 *)
(* clearCacheByPattern fails or cannot be issued, the call still returns   *)
(* normally and its memory cache part has taken effect: the value is set,  *)
(* the key is gone, the matching keys are gone.                            *)
C11_L2FailureNotSurfaced ==
    [][/\ \A key \in StoreKeys, data \in StoreValues, ttl \in StoreTTLs :
            (L2Failing /\ SetCache(key, data, ttl))
            => /\ ~lastOp'.raised
               /\ memoryCache'[key].present
               /\ L1Get(memoryCache', key) = data
       /\ \A key \in StoreKeys :
            (L2Failing /\ DeleteCache(key))
            => /\ ~lastOp'.raised
               /\ ~memoryCache'[key].present
       /\ \A pattern \in Patterns :
            (L2Failing /\ ClearCacheByPattern(pattern))
            => /\ ~lastOp'.raised
               /\ \A k \in Keys : Includes(k, pattern) => ~memoryCache'[k].present
      ]_vars

C11_Witness ==
    \E key \in StoreKeys :
        /\ lastOp = OpOutcome("set", "rejected")
        /\ redisState = "error"
        /\ L1Get(memoryCache, key) = Str("a caption")
        /\ ~redisStore[key].present

----------------------------------------------------------------------------
(* C12: after setCache(key, v, ttl), a lookup of the key concluded before  *)
(* ttl seconds have passed, with no write or delete of the key in between, *)
(* is a hit and returns v: in the process that did the write, and in a     *)
(* process with an empty memory cache when Redis received the write and    *)
(* answers.                                                                *)
C12_ReadYourWrite ==
    [][\A c \in Callers :
          LET w == lastWrite[gw'[c].key]
          IN  (/\ LookupEnds(c)
               /\ w.active /\ w.by = "set"
               /\ w.age < w.ttl
               /\ w.warm \/ (w.l2 /\ redisState = "open"))
              => /\ gw'[c].pc = "returned"
                 /\ gw'[c].ret = w.v
      ]_vars

----------------------------------------------------------------------------
(* C13: no lookup is a hit for a key once the ttl of its last write has    *)
(* elapsed, whichever tier answers; this covers a ttl below the 300 s of   *)
(* the memory cache and memory entries copied from Redis.                  *)
C13_NoExpiredHit ==
    [][\A c \in Callers :
          LET w == lastWrite[gw'[c].key]
          IN  (LookupHits(c) /\ w.active /\ w.age >= w.ttl) => gw'[c].ret # w.v
      ]_vars

----------------------------------------------------------------------------
(* C14: a lookup consults the memory cache first and Redis only when the   *)
(* memory cache does not hold the key; a Redis hit is returned without     *)
(* calling fetchFn and is copied to the memory cache, so that the next     *)
(* lookup of the key in this process is answered by the memory cache.      *)
ServedFromL1(cache, key) == cache[key].present /\ Truthy(L1Get(cache, key))

C14_ReadThroughBackfill ==
    [][\A c \in Callers :
          LET key == gw'[c].key
          IN  /\ (gw[c].pc = "idle" /\ gw'[c].pc = "l2get") => ~memoryCache[key].present
              /\ (gw[c].pc = "l2get" /\ gw'[c].pc = "returned")
                 => /\ gw'[c].nfetch = 0
                    /\ gw'[c].ret = JSONParse(RedisGet(redisStore, key))
                    /\ L1Get(memoryCache', key) = gw'[c].ret
                    /\ ServedFromL1(memoryCache', key)
      ]_vars

----------------------------------------------------------------------------
(* C15: a getWithCache miss and a setCache write the value to both tiers   *)
(* with the ttl the caller gave: right after the write, the entry of each  *)
(* tier that was written has ttl seconds to live.                          *)
C15_DualWriteWithTTL ==
    [][/\ \A c \in Callers :
            /\ (gw[c].pc = "fetch" /\ gw'[c].pc \in {"l2set", "returned"})
               => /\ memoryCache'[gw[c].key].present
                  /\ memoryCache'[gw[c].key].rem = gw[c].ttl
            /\ (gw[c].pc = "l2set" /\ gw'[c].pc = "returned")
               => /\ redisStore'[gw[c].key].present
                  /\ redisStore'[gw[c].key].rem = gw[c].ttl
       /\ \A key \in StoreKeys, data \in StoreValues, ttl \in StoreTTLs :
            (~L2Failing /\ SetCache(key, data, ttl))
            => /\ memoryCache'[key].present /\ memoryCache'[key].rem = ttl
               /\ redisStore'[key].present /\ redisStore'[key].rem = ttl
      ]_vars

----------------------------------------------------------------------------
(* C16: when deleteCache(key) has returned, the key is in neither tier, so *)
(* the next lookup is a miss; also when the Redis delete fails.            *)
C16_InvalidateRemoves ==
    [][\A key \in StoreKeys :
          DeleteCache(key) => /\ ~memoryCache'[key].present
                              /\ ~redisStore'[key].present
      ]_vars

----------------------------------------------------------------------------
(* C17: calls of getWithCache for the same key that are in flight together *)
(* invoke fetchFn once between them.                                       *)
InFlight(c) == gw[c].pc \in {"l2get", "fetch", "l2set", "refetch"}

C17_MissCoalescing ==
    \A c1, c2 \in Callers :
        (c1 # c2 /\ InFlight(c1) /\ InFlight(c2) /\ gw[c1].key = gw[c2].key)
        => gw[c1].nfetch + gw[c2].nfetch <= 1

----------------------------------------------------------------------------
(* C18: the key of a cached result identifies the bytes of the image: once *)
(* analyzeImage has built the keys of its image, an image has the same key *)
(* exactly when it has the same bytes, also when the two images begin with *)
(* the same bytes.                                                         *)
C18_FingerprintIdentity ==
    aiPc \in {"lookup", "provider", "returned"}
    => \A k \in DirectKinds, img \in Images :
          (DirectKey(k, img) = DirectKey(k, aiImage)) <=> (ImageBytes(img) = ImageBytes(aiImage))

----------------------------------------------------------------------------
(* C19: a job whose handler has thrown on every run has been run at most   *)
(* maxAttempts times, waits or runs only while attempts remain and is      *)
(* otherwise failed; a failed job stays failed; and a waiting job whose    *)
(* handler keeps throwing does reach failed.  This covers the job enqueued *)
(* with attempts: 3 and the one enqueued without the option.               *)
AlwaysThrew(job) == job.ran > 0 /\ job.threw = job.ran

C19_BoundedRetry ==
    /\ [](\A slot \in WorkSlots :
            LET job == work[slot]
            IN  AlwaysThrew(job)
                => /\ job.ran <= job.maxAttempts
                   /\ job.state \in {"waiting", "active", "failed"}
                   /\ ~job.returned
                   /\ job.state \in {"waiting", "active"} => job.ran < job.maxAttempts)
    /\ [][\A slot \in WorkSlots :
            work[slot].state = "failed" => work'[slot].state = "failed"]_vars
    /\ \A slot \in WorkSlots :
            (work[slot].state = "waiting")
            ~> (work[slot].state = "failed" \/ work[slot].done > 0)

C19_Witness ==
    /\ work["embedding"].state = "failed"
    /\ work["embedding"].ran = FaceAttempts
    /\ work["analysis"].state = "failed"
    /\ work["analysis"].ran = DefaultAttempts
    /\ AlwaysThrew(work["embedding"]) /\ AlwaysThrew(work["analysis"])

----------------------------------------------------------------------------
(* C20: when processImageAnalysis has returned a second time for the same  *)
(* job (redelivery after a worker died before acknowledging), the memory   *)
(* row, the tag rows and the face-detection rows are what the first run    *)
(* left.                                                                   *)
C20_IdempotentRedelivery ==
    (work["analysis"].done >= 2 /\ work["analysis"].returned) => db = work["analysis"].first

----------------------------------------------------------------------------
(* C21: a job is held by at most one worker at a time, and it is held      *)
(* exactly while it is active: a step in which a worker takes a job starts *)
(* from a job that waits and that nobody holds, also when the job is taken *)
(* again after its worker died or after an attempt that failed.            *)
C21_SingleClaim ==
    /\ [](\A slot \in WorkSlots :
            /\ Cardinality(work[slot].owners) <= 1
            /\ work[slot].owners # {} <=> work[slot].state = "active")
    /\ [][\A slot \in WorkSlots :
            work'[slot].owners \ work[slot].owners # {}
            => work[slot].state = "waiting" /\ work[slot].owners = {}]_vars

C21_Witness ==
    \E slot \in WorkSlots :
        /\ work[slot].state = "active"
        /\ Cardinality(work[slot].owners) = 1
        /\ work[slot].redelivered > 0
        /\ work[slot].attemptsMade > 0

----------------------------------------------------------------------------
(* C22: a job moves only from waiting to active, and from active to        *)
(* completed, to failed, or back to waiting; it goes back to waiting       *)
(* either as a retry, with attemptsMade one higher and attemptsMade below  *)
(* maxAttempts before it, or as the redelivery of a run nobody             *)
(* acknowledged, with attemptsMade unchanged; it fails only with its       *)
(* attempts used up; completed and failed jobs never change again; and     *)
(* the waiters of a job have its result exactly when it is completed, its  *)
(* failure exactly when it is failed, and nothing before.                  *)
JobStep(old, new) ==
    \/ new.state = old.state /\ new.attemptsMade = old.attemptsMade
    \/ old.state = "none" /\ new.state = "waiting" /\ new.attemptsMade = 0
    \/ old.state = "waiting" /\ new.state = "active" /\ new.attemptsMade = old.attemptsMade
    \/ old.state = "active" /\ new.state = "completed" /\ old.returned
                            /\ new.attemptsMade = old.attemptsMade
    \/ old.state = "active" /\ new.state = "waiting"
                            /\ new.attemptsMade = old.attemptsMade + 1
                            /\ old.attemptsMade < old.maxAttempts
                            /\ new.attemptsMade < new.maxAttempts
    \/ old.state = "active" /\ new.state = "waiting"
                            /\ new.attemptsMade = old.attemptsMade
                            /\ new.redelivered = old.redelivered + 1
    \/ old.state = "active" /\ new.state = "failed"
                            /\ new.attemptsMade = old.attemptsMade + 1
                            /\ new.attemptsMade >= new.maxAttempts

----------------------------------------------------------------------------
(* C24: a job whose type the processor of its queue does not know fails    *)
(* for good on its first run: once its processor has thrown, the job is    *)
(* failed and has been run once, whatever attempts it was enqueued with.   *)
UnknownType(job) == job.state # "none" /\ job.name \notin Handles(job.queue)

C24_TerminalVersusRetryable ==
    \A slot \in WorkSlots :
        (UnknownType(work[slot]) /\ work[slot].threw >= 1)
        => work[slot].state = "failed" /\ work[slot].ran = 1

----------------------------------------------------------------------------
(* C25: whatever subset of the five kinds the options switch off, a kind   *)
(* that is off enqueues no job, its cache entries are left as they were    *)
(* from the call to its end, and its field is null in the result; a kind   *)
(* that is on starts as it does in a call with every kind on: by the       *)
(* lookup of its own key and the enqueue of its own job, whatever the      *)
(* other kinds are set to, and its field is what its subtask resolved to.  *)
CallStarts == aPc # "fanout" /\ aPc' = "fanout"

KindOff(k) ==
    /\ st[k].pc = "settled" /\ st[k].src = "off" /\ st[k].enq = 0
    /\ st[k].val = Null
    /\ jobs[k] = NoJob

C25_TogglesIndependent ==
    /\ [](aPc # "idle" => \A k \in Kinds \ aOpts.enabled : KindOff(k))
    /\ [](aPc = "returned" =>
            /\ \A k \in Kinds \ aOpts.enabled : Aggregate[IF k = "text" THEN "extractedText" ELSE k] = Null
            /\ \A k \in aOpts.enabled : /\ Aggregate[IF k = "text" THEN "extractedText" ELSE k] = st[k].val
                                         /\ st[k].src # "off")
    /\ [][\A k \in Kinds :
            LET key == CacheKey(k, HashBuffer(aOpts'.buf))
                alone == SubBegin(key, k)
            IN  /\ (CallStarts /\ k \in aOpts'.enabled)
                   => /\ st'[k] = alone.sub
                      /\ jobs'[k] = alone.job
                      /\ memoryCache'[key] = alone.l1
                      /\ redisStore'[key] = redisStore[key]
                /\ ((CallStarts \/ aPc \in {"fanout", "tags"}) /\ k \notin aOpts'.enabled)
                   => /\ memoryCache'[key] = memoryCache[key]
                      /\ redisStore'[key] = redisStore[key]]_vars

C25_Witness ==
    /\ aPc = "returned"
    /\ aOpts.enabled = {"faces", "text"}
    /\ st["faces"].src = "job"
    /\ st["text"].src = "l1"
    /\ KindOff("caption")
    /\ Holds(memoryCache, CacheKey("caption", HashBuffer(aOpts.buf)))
    /\ KindOff("scene")
    /\ ~Holds(memoryCache, CacheKey("scene", HashBuffer(aOpts.buf)))

----------------------------------------------------------------------------
(* C26: one call of getWithCache invokes fetchFn at most once, also when   *)
(* fetchFn rejects and when the Redis write after it fails.                *)
C26_AtMostOneCompute == \A c \in Solo : gw[c].nfetch <= 1

----------------------------------------------------------------------------
(* C27: no job enqueued by the orchestrator or by a controller is thrown   *)
(* out by the switch of the processor registered on its queue: a job whose *)
(* processor has thrown has a type that one of the processor's cases       *)
(* handles.                                                                *)
C27_DispatchCoverage ==
    /\ \A k \in JobSlots : JobTypeOf(k) \in Handles(QueueOf(k))
    /\ \A slot \in WorkSlots :
          work[slot].threw >= 1 => work[slot].name \in Handles(work[slot].queue)

----------------------------------------------------------------------------
(* C28: when clearCacheByPattern(pattern) has returned with Redis          *)
(* answering, every key that begins with the pattern is in neither tier,   *)
(* and every key that does not begin with it is in both tiers what it was, *)
(* also a key that holds the pattern further on.                           *)
C28_PrefixExact ==
    [][\A pattern \in Patterns :
          (~L2Failing /\ ClearCacheByPattern(pattern))
          => \A key \in Keys :
                IF BeginsWith(key, pattern)
                THEN ~memoryCache'[key].present /\ ~redisStore'[key].present
                ELSE memoryCache'[key] = memoryCache[key] /\ redisStore'[key] = redisStore[key]
      ]_vars

----------------------------------------------------------------------------
(* C29: when processImageAnalysis starts on a job, the memory is marked    *)
(* processing; when it ends, the memory is completed exactly if it         *)
(* returned and failed exactly if it threw, and what it threw reaches the  *)
(* queue as a failed attempt; a memory whose job is completed is           *)
(* completed and one whose job has failed is failed, also when the job was *)
(* delivered again in between.                                             *)
HandlerStarts(old, new) == old.state = "waiting" /\ new.state = "active"
HandlerEnds(old, new) == new.ran = old.ran + 1
HandlerReturned(old, new) == new.done = old.done + 1
HandlerThrew(old, new) == new.threw = old.threw + 1

C29_StatusFollowsOutcome ==
    /\ [][LET old == work["analysis"]
              new == work'["analysis"]
          IN  /\ HandlerStarts(old, new) => db'.status = "processing"
              /\ HandlerEnds(old, new)
                 => /\ db.status = "processing"
                    /\ HandlerReturned(old, new) <=> db'.status = "completed"
                    /\ HandlerThrew(old, new) <=> db'.status = "failed"
                    /\ HandlerThrew(old, new) => new.attemptsMade = old.attemptsMade + 1]_vars
    /\ [](work["analysis"].state = "completed" => db.status = "completed")
    /\ [](work["analysis"].state = "failed" => db.status = "failed")

C29_Witness ==
    /\ work["analysis"].state = "failed"
    /\ work["analysis"].redelivered > 0
    /\ work["analysis"].done > 0
    /\ db.status = "failed"

----------------------------------------------------------------------------
(* C30: when analyzeImage has returned the extractor's tags, a caption     *)
(* subtask that failed has given them no word of the placeholder caption,  *)
(* and a scene subtask that failed has given them no location tag.         *)
PlaceholderWords ==
    {ToLowerCase(Placeholder("caption")[i]) : i \in 1..Len(Placeholder("caption"))}

C30_FallbackFromSucceeded ==
    (aiPc = "returned" /\ aiTagSrc = "fallback")
    => /\ "caption" \notin aiOk
          => \A i \in 1..Len(aiTags) : aiTags[i].name \notin PlaceholderWords
       /\ "scene" \notin aiOk
          => \A i \in 1..Len(aiTags) : aiTags[i].category # "location"

====
